---- MODULE Spec2Model ----
(***************************************************************************)
(* keychain-env: lib/keychain-env.js                                       *)
(*                                                                         *)
(* setEnvFromNote reads a secure note from the macOS keychain through the  *)
(* `security` command line tool, hex-decodes it, unwraps the property list *)
(* the Keychain Access application puts around it, parses the note with    *)
(* dotenv and merges the result into process.env.  When the note does not  *)
(* exist a template may be written in its place.                           *)
(*                                                                         *)
(* JavaScript strings are sequences of one-character strings, byte arrays  *)
(* are sequences of integers 0..255, decoded text is a sequence of code    *)
(* points.  JavaScript values of options are tagged records.               *)
(***************************************************************************)
EXTENDS Integers, Sequences, FiniteSets, TLC

VARIABLES
  env,          \* process.env: key -> value, Unset when the key is not defined
  options,      \* the caller's options object (setEnvFromNote mutates it)
  noteName,     \* the noteName argument of the last call
  cmds,         \* the commands handed to execSync, in order
  filesRead,    \* the paths handed to fs.readFileSync, in order
  parserInput,  \* what was handed to dotenv.parse, NoCall when it was not called
  vars,         \* the object dotenv.parse returned, NoVars when it returned none
  readStatus,   \* how the find-generic-password subprocess ended
  plistResult,  \* what plistparser.parse did, or would have done if called
  fileResult,   \* what fs.readFileSync did, or would have done if called
  writeStatus,  \* how the add-generic-password subprocess ended or would end
  outcome,      \* how the last call ended: returned, or the error it threw
  env0,         \* process.env as it was when the last call started
  options0,     \* the options object as the caller passed it
  pc,           \* position of the driver of each specification
  hexString,    \* decodeHex: the argument
  decoded,      \* decodeHex: the result
  str,          \* escapeDoubleQuotes: the argument
  escaped       \* escapeDoubleQuotes: the result

allVars == <<env, options, noteName, cmds, filesRead, parserInput, vars,
             readStatus, plistResult, fileResult, writeStatus, outcome,
             env0, options0, pc, hexString, decoded, str, escaped>>

callVars == <<env, options, noteName, cmds, filesRead, parserInput, vars,
              readStatus, plistResult, fileResult, writeStatus, outcome,
              env0, options0>>

----------------------------------------------------------------------------
(* Bounds of the model *)

MaxHexLen == 4      \* longest argument of decodeHex that is enumerated
MaxStrLen == 4      \* longest argument of escapeDoubleQuotes that is enumerated

----------------------------------------------------------------------------
(* JavaScript values *)

Undefined == [t |-> "undefined", v |-> 0]
Bool(b) == [t |-> "boolean", v |-> b]
Num(n) == [t |-> "number", v |-> n]
Str(s) == [t |-> "string", v |-> s]

IsUndefined(x) == x.t = "undefined"

\* ToBoolean, as `if (x)` and `!x` apply it
Truthy(x) ==
  CASE x.t = "undefined" -> FALSE
    [] x.t = "boolean" -> x.v
    [] x.t = "number" -> x.v # 0
    [] x.t = "string" -> Len(x.v) > 0

SeqsUpTo(S, n) == UNION {[1..k -> S] : k \in 0..n}

Min(a, b) == IF a < b THEN a ELSE b

----------------------------------------------------------------------------
(* decodeHex *)

HexDigits == {"0", "1", "2", "3", "4", "5", "6", "7", "8", "9",
              "a", "b", "c", "d", "e", "f", "A", "B", "C", "D", "E", "F"}

WhiteSpace == {" ", "\n", "\t", "\r"}

HexVal(c) ==
  CASE c = "0" -> 0 [] c = "1" -> 1 [] c = "2" -> 2 [] c = "3" -> 3
    [] c = "4" -> 4 [] c = "5" -> 5 [] c = "6" -> 6 [] c = "7" -> 7
    [] c = "8" -> 8 [] c = "9" -> 9
    [] c \in {"a", "A"} -> 10 [] c \in {"b", "B"} -> 11
    [] c \in {"c", "C"} -> 12 [] c \in {"d", "D"} -> 13
    [] c \in {"e", "E"} -> 14 [] c \in {"f", "F"} -> 15

NaN == -1

\* String.prototype.slice(from, to) with 0 <= from <= to, on 0-based indices
Slice(s, from, to) == SubSeq(s, from + 1, Min(to, Len(s)))

RECURSIVE TrimStart(_)
TrimStart(s) ==
  IF Len(s) > 0 /\ Head(s) \in WhiteSpace THEN TrimStart(Tail(s)) ELSE s

RECURSIVE HexPrefixValue(_, _)
HexPrefixValue(s, acc) ==
  IF Len(s) > 0 /\ Head(s) \in HexDigits
  THEN HexPrefixValue(Tail(s), 16 * acc + HexVal(Head(s)))
  ELSE acc

RECURSIVE DecPrefixValue(_, _)
DecPrefixValue(s, acc) ==
  IF Len(s) > 0 /\ Head(s) \in {"0", "1", "2", "3", "4", "5", "6", "7", "8", "9"}
  THEN DecPrefixValue(Tail(s), 10 * acc + HexVal(Head(s)))
  ELSE acc

\* ParseInt16 with the radix left out: parseInt(hexByte)
ParseInt16_NoRadix(s) ==
  LET t == TrimStart(s)
  IN IF Len(t) > 0 /\ Head(t) \in {"0", "1", "2", "3", "4", "5", "6", "7", "8", "9"}
     THEN DecPrefixValue(t, 0) ELSE NaN

\* parseInt(s, 16) on strings without sign and without 0x prefix: leading
\* white space is skipped, the longest run of hex digits is the number,
\* NaN when that run is empty
ParseInt16(s) ==
  LET t == TrimStart(s)
  IN IF Len(t) > 0 /\ Head(t) \in HexDigits THEN HexPrefixValue(t, 0) ELSE NaN

\* uint8[index] = byte: a store outside the array is ignored, NaN is stored
\* as 0, a number is stored modulo 256
Uint8Store(uint8, index, byte) ==
  IF index + 1 > Len(uint8) THEN uint8
  ELSE [uint8 EXCEPT ![index + 1] = IF byte = NaN THEN 0 ELSE byte % 256]

\* the for loop of decodeHex from position i on
RECURSIVE DecodeLoop(_, _, _)
DecodeLoop(hs, i, uint8) ==
  IF i < Len(hs)
  THEN LET hexByte == Slice(hs, i, i + 2)
           byte == ParseInt16(hexByte)
       IN DecodeLoop(hs, i + 2, Uint8Store(uint8, i \div 2, byte))
  ELSE uint8

\* new Uint8Array(hexString.length / 2): the length is truncated to an
\* integer and the array is zero filled
HexBytes(hs) == DecodeLoop(hs, 0, [k \in 1..(Len(hs) \div 2) |-> 0])

IsContinuation(b) == b >= 128 /\ b <= 191

\* Buffer.prototype.toString(): UTF-8 decoding of one and two byte
\* sequences; any other byte becomes U+FFFD.  (Three and four byte sequences
\* start with a byte >= 0xE0, which the digits enumerated here cannot form.)
RECURSIVE Utf8ToString(_)
Utf8ToString(bytes) ==
  IF Len(bytes) = 0 THEN <<>>
  ELSE LET b == Head(bytes)
       IN IF b < 128 THEN <<b>> \o Utf8ToString(Tail(bytes))
          ELSE IF b >= 194 /\ b <= 223 /\ Len(bytes) > 1
                  /\ IsContinuation(bytes[2])
          THEN <<(b - 192) * 64 + (bytes[2] - 128)>>
               \o Utf8ToString(Tail(Tail(bytes)))
          ELSE <<65533>> \o Utf8ToString(Tail(bytes))

\* decodeHex has no throw statement and calls nothing that throws on a
\* string: the result is always a string
decodeHex(hs) ==
  [threw |-> FALSE, bytes |-> HexBytes(hs), text |-> Utf8ToString(HexBytes(hs))]

----------------------------------------------------------------------------
(* noteFromPList *)

\* plistPreamble: the model abbreviates the DOCTYPE line to its first two
\* characters, "<!"
plistPreamble == <<60, 33>>

\* String.prototype.indexOf: the first 0-based position of pat in text, -1
\* when there is none
IndexOf(text, pat) ==
  LET hits == {i \in 0..(Len(text) - Len(pat)) :
                 SubSeq(text, i + 1, i + Len(pat)) = pat}
  IN IF hits = {} THEN -1 ELSE CHOOSE i \in hits : \A j \in hits : i <= j

HasPreamble(text) == IndexOf(text, plistPreamble) >= 0

\* What plistparser.parse can do with a document (the plist package is not
\* part of the repository): throw, or return an object whose NOTE property
\* is a string or is missing
NoteTexts == {<<65, 61, 49>>}
PlistOutcomes ==
  {[threw |-> TRUE, NOTE |-> Undefined], [threw |-> FALSE, NOTE |-> Undefined]}
  \cup {[threw |-> FALSE, NOTE |-> Str(t)] : t \in NoteTexts}
PlistNotCalled == [threw |-> FALSE, NOTE |-> Undefined]

\* noteFromPList falling back to the document itself when the NOTE property
\* cannot be read
noteFromPList_RawFallback(plistString, p) ==
  IF HasPreamble(plistString) /\ ~p.threw /\ ~IsUndefined(p.NOTE)
  THEN [threw |-> FALSE, note |-> p.NOTE]
  ELSE [threw |-> FALSE, note |-> Str(plistString)]

\* noteFromPList(plistString), p being what plistparser.parse does when it
\* is called
noteFromPList(plistString, p) ==
  IF HasPreamble(plistString)
  THEN [threw |-> p.threw, note |-> p.NOTE]
  ELSE [threw |-> FALSE, note |-> Str(plistString)]

----------------------------------------------------------------------------
(* escapeDoubleQuotes *)

Backslash == "\\"
DQuote == "\""

\* str.replace(/\\([\s\S])|(")/g, "\\$1$2"): one pass from left to right.
\* A backslash with a character after it matches the first alternative and
\* is replaced by a backslash and that character; a double quote matches the
\* second alternative and is replaced by a backslash and the quote; every
\* other character, a last lone backslash included, is copied.
RECURSIVE escapeDoubleQuotes(_)
escapeDoubleQuotes(s) ==
  IF Len(s) = 0 THEN <<>>
  ELSE IF Head(s) = Backslash /\ Len(s) > 1
  THEN <<Backslash, s[2]>> \o escapeDoubleQuotes(Tail(Tail(s)))
  ELSE IF Head(s) = DQuote
  THEN <<Backslash, DQuote>> \o escapeDoubleQuotes(Tail(s))
  ELSE <<Head(s)>> \o escapeDoubleQuotes(Tail(s))

----------------------------------------------------------------------------
(* writeNote *)

\* the template writeNote takes from options.template
UsesTemplate(opts) == Truthy(opts.template)

\* the template writeNote reads from the file options.templatePath
UsesTemplatePath(opts) == ~UsesTemplate(opts) /\ Truthy(opts.templatePath)

\* the timeout writeNote hands to execSync
WriteTimeout(opts) == opts.timeout

\* What fs.readFileSync can do: throw, or return the contents of the file
FileTexts == {<<"Y", "=", "2">>}
FileOutcomes == {[threw |-> TRUE, text |-> <<>>]}
                \cup {[threw |-> FALSE, text |-> t] : t \in FileTexts}
FileNotRead == [threw |-> FALSE, text |-> <<>>]

\* How the add-generic-password subprocess can end
WriteOutcomes == {"ok", "failed", "timeout"}

AddCmd(name, contents, timeout) ==
  [op |-> "add-generic-password", name |-> name, contents |-> contents,
   timeout |-> timeout]

\* writeNote(noteName, options): file is what fs.readFileSync does and wr how
\* the subprocess ends, when they are reached.  The result is the commands
\* run, the files read and whether an error was thrown.
writeNote(name, opts, file, wr) ==
  IF UsesTemplate(opts)
  THEN [cmds |-> <<AddCmd(name, escapeDoubleQuotes(opts.template.v),
                          WriteTimeout(opts))>>,
        filesRead |-> <<>>,
        threw |-> IF wr = "ok" THEN "none" ELSE "write"]
  ELSE IF UsesTemplatePath(opts)
  THEN IF file.threw
       THEN [cmds |-> <<>>, filesRead |-> <<opts.templatePath.v>>,
             threw |-> "readFile"]
       ELSE [cmds |-> <<AddCmd(name, escapeDoubleQuotes(file.text),
                               WriteTimeout(opts))>>,
             filesRead |-> <<opts.templatePath.v>>,
             threw |-> IF wr = "ok" THEN "none" ELSE "write"]
  ELSE [cmds |-> <<>>, filesRead |-> <<>>, threw |-> "none"]

----------------------------------------------------------------------------
(* setEnvFromNote *)

Unset == "<undefined>"
NoCall == [t |-> "not called", v |-> 0]
NoVars == <<>>

\* NameMissing testing for undefined only
NameMissing_UndefinedOnly(name) == IsUndefined(name)

\* if (!noteName)
NameMissing(name) == ~Truthy(name)

\* WithDefaults leaving the timeout as the caller passed it
WithDefaults_NoTimeout(opts) ==
  [opts EXCEPT !.overwrite = IF IsUndefined(@) THEN Bool(FALSE) ELSE @]

\* the defaults setEnvFromNote stores into the options object
DefaultTimeout == 5000
WithDefaults(opts) ==
  [opts EXCEPT !.overwrite = IF IsUndefined(@) THEN Bool(FALSE) ELSE @,
               !.timeout = IF IsUndefined(@) THEN Num(DefaultTimeout) ELSE @]

FindCmd(name, timeout) ==
  [op |-> "find-generic-password", name |-> name, contents |-> <<>>,
   timeout |-> timeout]

NotFoundStatus == 44

\* Rethrows with status 44 never thrown again
Rethrows_Swallow44(rd, opts) == ~(rd.kind = "exit" /\ rd.status = 44)

\* Rethrows without the else branch: any failure of the read is swallowed
\* when a template is configured
Rethrows_NoElse(rd, opts) ==
  IsUndefined(opts.template) /\ IsUndefined(opts.templatePath)

\* the catch block: TRUE when the error of the read is thrown again
Rethrows(rd, opts) ==
  IF rd.kind = "exit" /\ rd.status = NotFoundStatus
  THEN IsUndefined(opts.template) /\ IsUndefined(opts.templatePath)
  ELSE TRUE

\* Skips without the test of options.overwrite
Skips_IgnoreOverwrite(e, k, opts) == e[k] # Unset

\* if (process.env[k] !== undefined) { if (!options.overwrite) continue; }
Skips(e, k, opts) == e[k] # Unset /\ ~Truthy(opts.overwrite)

\* for (const k of Object.keys(vars)): vs is the sequence of <<key, value>>
\* pairs of vars in the order of Object.keys, i the next position
RECURSIVE MergeLoop(_, _, _, _)
MergeLoop(e, vs, i, opts) ==
  IF i > Len(vs) THEN e
  ELSE LET k == vs[i][1]
       IN IF Skips(e, k, opts)
          THEN MergeLoop(e, vs, i + 1, opts)
          ELSE MergeLoop([e EXCEPT ![k] = vs[i][2]], vs, i + 1, opts)

\* dotenv.parse(note) calls note.toString(): a TypeError when note is
\* undefined.  What it returns for a string is decided by the dotenv package
\* (parsed, below).
DotenvThrows(note) == IsUndefined(note)

Threw(what, status) == [kind |-> "threw", error |-> what, status |-> status]
Returned == [kind |-> "returned", error |-> "none", status |-> 0]

\* setEnvFromNote(noteName, options) called with process.env = e.
\*   rd      how the find-generic-password subprocess ends
\*   stdout  what it printed when it ended with status 0
\*   p       what plistparser.parse does when it is called
\*   parsed  what dotenv.parse returns when it is called with a string
\*   file, wr  see writeNote
\* The result is the state the call leaves behind.
setEnvFromNote(name, opts, e, rd, stdout, p, parsed, file, wr) ==
  LET unchanged == [env |-> e, options |-> opts, cmds |-> <<>>,
                    filesRead |-> <<>>, parserInput |-> NoCall,
                    vars |-> NoVars, outcome |-> Returned]
  IN
  IF NameMissing(name)
  THEN [unchanged EXCEPT !.outcome = Threw("You must supply a note name", 0)]
  ELSE
    LET o == WithDefaults(opts)
        afterRead == [unchanged EXCEPT !.options = o,
                                       !.cmds = <<FindCmd(name, o.timeout)>>]
    IN
    IF rd.kind = "exit" /\ rd.status = 0
    THEN \* if (stdout): execSync returns a Buffer, which is an object
      LET plist == decodeHex(stdout).text
          n == noteFromPList(plist, p)
      IN IF n.threw
         THEN [afterRead EXCEPT !.outcome = Threw("plistparser.parse", 0)]
         ELSE IF DotenvThrows(n.note)
         THEN [afterRead EXCEPT !.parserInput = n.note,
                                !.outcome = Threw("dotenv.parse", 0)]
         ELSE [afterRead EXCEPT !.parserInput = n.note,
                                !.vars = parsed,
                                !.env = MergeLoop(e, parsed, 1, o)]
    ELSE IF Rethrows(rd, o)
    THEN [afterRead EXCEPT !.outcome = Threw("execSync find", rd.status)]
    ELSE \* stdout is undefined
      LET w == writeNote(name, o, file, wr)
      IN [afterRead EXCEPT
            !.cmds = @ \o w.cmds,
            !.filesRead = w.filesRead,
            !.outcome = IF w.threw = "none" THEN Returned
                        ELSE IF w.threw = "readFile"
                        THEN Threw("fs.readFileSync", 0)
                        ELSE Threw("execSync add", 0)]

----------------------------------------------------------------------------
(* The calls that are enumerated *)

Keys == {"FOO", "BAR"}
Values == {"old", "new"}

\* process.env before the call
Envs == [Keys -> Values \cup {Unset}]

\* the objects dotenv.parse can return: sequences of <<key, value>> pairs
\* with distinct keys, in the order of Object.keys
Mappings ==
  {m \in SeqsUpTo(Keys \X Values, Cardinality(Keys)) :
     \A i, j \in 1..Len(m) : i # j => m[i][1] # m[j][1]}

NoteNames == {Undefined, Str(""), Str("App.env")}

OptionsSet ==
  [overwrite : {Undefined, Bool(FALSE), Bool(TRUE)},
   timeout : {Undefined, Num(3000)},
   template : {Undefined, Str(<<>>), Str(<<"X", "=", "1">>),
               Str(<<"X", "=", DQuote>>)},
   templatePath : {Undefined, Str(""), Str("variables.env.template")}]

NoOptions == [overwrite |-> Undefined, timeout |-> Undefined,
              template |-> Undefined, templatePath |-> Undefined]

\* how the find-generic-password subprocess can end: an exit status, or the
\* timeout, after which the error carries no status
TimedOut == [kind |-> "timeout", status |-> -1]
ReadOutcomes == {[kind |-> "exit", status |-> n] : n \in {0, NotFoundStatus, 1}}
                \cup {TimedOut}
NotRun == [kind |-> "not run", status |-> 0]

\* what the subprocess prints on status 0: nothing, the hex string of "A=1"
\* with the line feed `security` ends its output with, of "<!", of "A<!"
StdoutSet == {<<>>,
              <<"4", "1", "3", "d", "3", "1", "\n">>,
              <<"3", "c", "2", "1", "\n">>,
              <<"4", "1", "3", "C", "2", "1">>}

NotDecoded == [threw |-> FALSE, bytes |-> <<>>, text |-> <<>>]

Found(rd) == rd.kind = "exit" /\ rd.status = 0

InitCommon ==
  /\ options = NoOptions
  /\ noteName = Undefined
  /\ cmds = <<>>
  /\ filesRead = <<>>
  /\ parserInput = NoCall
  /\ vars = NoVars
  /\ readStatus = NotRun
  /\ plistResult = PlistNotCalled
  /\ fileResult = FileNotRead
  /\ writeStatus = "ok"
  /\ outcome = Returned
  /\ options0 = NoOptions

Init ==
  /\ InitCommon
  /\ env \in Envs
  /\ env0 = env
  /\ pc = "ready"
  /\ hexString = <<>>
  /\ decoded = NotDecoded
  /\ str = <<>>
  /\ escaped = <<>>

\* One call of setEnvFromNote.  What the subprocesses, the file system and
\* the two parsers do is drawn here; a collaborator the call cannot reach
\* with the drawn read outcome is not drawn.
Call ==
  /\ pc = "ready"
  /\ \E name \in NoteNames, opts \in OptionsSet, rd \in ReadOutcomes :
     \E stdout \in IF Found(rd) THEN StdoutSet ELSE {<<>>} :
     \E p \in IF Found(rd) /\ HasPreamble(decodeHex(stdout).text)
              THEN PlistOutcomes ELSE {PlistNotCalled} :
     \E parsed \in IF Found(rd) THEN Mappings ELSE {NoVars} :
     \E file \in IF Found(rd) THEN {FileNotRead} ELSE FileOutcomes :
     \E wr \in IF Found(rd) THEN {"ok"} ELSE WriteOutcomes :
       LET r == setEnvFromNote(name, opts, env, rd, stdout, p, parsed,
                               file, wr)
       IN /\ env' = r.env
          /\ options' = r.options
          /\ cmds' = r.cmds
          /\ filesRead' = r.filesRead
          /\ parserInput' = r.parserInput
          /\ vars' = r.vars
          /\ outcome' = r.outcome
          /\ noteName' = name
          /\ options0' = opts
          /\ env0' = env
          /\ readStatus' = rd
          /\ plistResult' = p
          /\ fileResult' = file
          /\ writeStatus' = wr
          /\ hexString' = stdout
          /\ decoded' = IF Found(rd) THEN decodeHex(stdout) ELSE NotDecoded
  /\ pc' = "done"
  /\ UNCHANGED <<str, escaped>>

Next == Call

Spec == Init /\ [][Next]_allVars

----------------------------------------------------------------------------
(* decodeHex on its own *)

HexAlphabet == {"4", "8", "c", "C", "z", "\n"}

InitHex ==
  /\ InitCommon
  /\ env = [k \in Keys |-> Unset]
  /\ env0 = env
  /\ pc = "hex"
  /\ hexString \in SeqsUpTo(HexAlphabet, MaxHexLen)
  /\ decoded = NotDecoded
  /\ str = <<>>
  /\ escaped = <<>>

DecodeHexCall ==
  /\ pc = "hex"
  /\ decoded' = decodeHex(hexString)
  /\ pc' = "hex done"
  /\ UNCHANGED <<callVars, hexString, str, escaped>>

NextHex == DecodeHexCall

SpecHex == InitHex /\ [][NextHex]_allVars

----------------------------------------------------------------------------
(* escapeDoubleQuotes on its own *)

StrAlphabet == {Backslash, DQuote, "a"}

InitEsc ==
  /\ InitCommon
  /\ env = [k \in Keys |-> Unset]
  /\ env0 = env
  /\ pc = "escape"
  /\ str \in SeqsUpTo(StrAlphabet, MaxStrLen)
  /\ escaped = <<>>
  /\ hexString = <<>>
  /\ decoded = NotDecoded

EscapeCall ==
  /\ pc = "escape"
  /\ escaped' = escapeDoubleQuotes(str)
  /\ pc' = "escape done"
  /\ UNCHANGED <<callVars, hexString, decoded, str>>

NextEsc == EscapeCall

SpecEsc == InitEsc /\ [][NextEsc]_allVars

----------------------------------------------------------------------------
(* Properties *)

Done == pc = "done"
NameGiven == noteName.t = "string" /\ noteName.v # ""
ReadFound == readStatus.kind = "exit" /\ readStatus.status = 0
ReadNotFound == readStatus.kind = "exit" /\ readStatus.status = 44
ReadFailed == \/ readStatus.kind = "timeout"
              \/ readStatus.kind = "exit" /\ readStatus.status \notin {0, 44}

AddCmds == {i \in DOMAIN cmds : cmds[i].op = "add-generic-password"}
FindCmds == {i \in DOMAIN cmds : cmds[i].op = "find-generic-password"}

TemplateGiven == options0.template.t # "undefined"
TemplatePathGiven == options0.templatePath.t # "undefined"

InMapping(m, k) == \E i \in DOMAIN m : m[i][1] = k
ValueIn(m, k) == m[CHOOSE i \in DOMAIN m : m[i][1] = k][2]

\* C1: on the found path every key of the parsed mapping has the mapping's
\* value if it was unset or overwrite is true and keeps its old value
\* otherwise; every other key keeps its value; no key that was set is removed
C1_Merge ==
  (Done /\ NameGiven /\ ReadFound /\ outcome.kind = "returned") =>
    /\ \A k \in Keys :
         env[k] = IF InMapping(vars, k)
                     /\ (env0[k] = "<undefined>" \/ options0.overwrite = Bool(TRUE))
                  THEN ValueIn(vars, k)
                  ELSE env0[k]
    /\ \A k \in Keys : env0[k] # "<undefined>" => env[k] # "<undefined>"

C1_Witness ==
  /\ Done /\ NameGiven /\ ReadFound /\ outcome.kind = "returned"
  /\ options0.overwrite = Bool(FALSE)
  /\ env0 = [k \in Keys |-> IF k = "FOO" THEN "old" ELSE "<undefined>"]
  /\ vars = <<<<"FOO", "new">>, <<"BAR", "new">>>>
  /\ env = [k \in Keys |-> IF k = "FOO" THEN "old" ELSE "new"]

\* the contents the fallback is to write: the template if one is given,
\* else the text of the template file
ResolvedContents ==
  IF TemplateGiven THEN options0.template.v ELSE fileResult.text

\* C2: not found with a template or a templatePath, the file readable and
\* the store accepting the write: exactly one write for the same name with
\* the escaped contents, the call returns, process.env is as before; and no
\* return on the not-found path without a write
C2_FallbackWrites ==
  /\ (Done /\ NameGiven /\ ReadNotFound
      /\ (TemplateGiven \/ TemplatePathGiven)
      /\ ~fileResult.threw /\ writeStatus = "ok") =>
       /\ Cardinality(AddCmds) = 1
       /\ \A i \in AddCmds :
            /\ cmds[i].name = noteName
            /\ cmds[i].contents = escapeDoubleQuotes(ResolvedContents)
       /\ outcome.kind = "returned"
       /\ env = env0
  /\ (Done /\ NameGiven /\ ReadNotFound /\ outcome.kind = "returned") =>
       AddCmds # {}

\* C3: not found with neither template nor templatePath: the not-found
\* error of the read is thrown, nothing is written, process.env is as before
C3_NotFoundThrows ==
  (Done /\ NameGiven /\ ReadNotFound
   /\ ~TemplateGiven /\ ~TemplatePathGiven) =>
    /\ outcome = [kind |-> "threw", error |-> "execSync find", status |-> 44]
    /\ AddCmds = {}
    /\ env = env0

C3_Witness ==
  /\ Done /\ NameGiven /\ ReadNotFound
  /\ ~TemplateGiven /\ ~TemplatePathGiven
  /\ outcome.kind = "threw" /\ outcome.status = 44
  /\ Len(cmds) = 1

\* C4: the read ends with a status other than 0 and 44, or times out: the
\* call throws that error whatever the template options are, with one read
\* and no write, and process.env is as before
C4_ReadFailureThrows ==
  (Done /\ NameGiven /\ ReadFailed) =>
    /\ outcome = [kind |-> "threw", error |-> "execSync find",
                  status |-> readStatus.status]
    /\ Cardinality(FindCmds) = 1
    /\ AddCmds = {}
    /\ filesRead = <<>>
    /\ env = env0

C4_Witness ==
  /\ Done /\ NameGiven /\ readStatus.kind = "timeout"
  /\ TemplateGiven /\ options0.template.v # <<>>
  /\ outcome.kind = "threw" /\ outcome.error = "execSync find"
  /\ Len(cmds) = 1

\* What sh makes of the body of a double-quoted argument: a backslash before
\* a backslash, a double quote or a dollar sign stands for that character,
\* before a line feed both vanish,
\* before anything else it is kept; ok is FALSE when an unescaped double
\* quote ends the argument inside the body or a last backslash escapes the
\* closing quote
RECURSIVE ShellDoubleQuoted(_)
ShellDoubleQuoted(s) ==
  IF Len(s) = 0 THEN [value |-> <<>>, ok |-> TRUE]
  ELSE IF Head(s) = "\"" THEN [value |-> <<>>, ok |-> FALSE]
  ELSE IF Head(s) = "\\"
  THEN IF Len(s) = 1 THEN [value |-> <<>>, ok |-> FALSE]
       ELSE LET rest == ShellDoubleQuoted(Tail(Tail(s)))
            IN IF s[2] \in {"\\", "\"", "$"}
               THEN [rest EXCEPT !.value = <<s[2]>> \o @]
               ELSE IF s[2] = "\n" THEN rest
               ELSE [rest EXCEPT !.value = <<"\\", s[2]>> \o @]
  ELSE LET rest == ShellDoubleQuoted(Tail(s))
       IN [rest EXCEPT !.value = <<Head(s)>> \o @]

\* C5: the shell reads the escaped string, put between double quotes, as
\* exactly the string that was escaped, and no double quote of the output
\* ends the argument early
C5_EscapeRoundTrip ==
  pc = "escape done" => ShellDoubleQuoted(escaped) = [value |-> str, ok |-> TRUE]

\* C6: in a call that writes, a template that is given is what is written
\* and no file is read; a file is read only when no template is given
C6_TemplateWins ==
  (Done /\ NameGiven) =>
    /\ (AddCmds # {} /\ TemplateGiven) =>
         /\ \A i \in AddCmds :
              cmds[i].contents = escapeDoubleQuotes(options0.template.v)
         /\ filesRead = <<>>
    /\ filesRead # <<>> => ~TemplateGiven

\* C7: a missing or empty name: the call throws before any subprocess is
\* started, process.env and the options are as before
C7_NameRequired ==
  (Done /\ ~NameGiven) =>
    /\ outcome = [kind |-> "threw", error |-> "You must supply a note name",
                  status |-> 0]
    /\ cmds = <<>>
    /\ filesRead = <<>>
    /\ env = env0
    /\ options = options0

C7_Witness ==
  /\ Done /\ noteName = Str("")
  /\ options0.timeout.t = "undefined" /\ options.timeout.t = "undefined"
  /\ outcome.kind = "threw" /\ cmds = <<>>

\* the NOTE property of a document with the preamble cannot be read
ExtractionFails ==
  /\ ReadFound
  /\ IndexOf(decoded.text, <<60, 33>>) >= 0
  /\ (plistResult.threw \/ plistResult.NOTE.t = "undefined")

\* C8: the decoded text has the preamble and NOTE cannot be extracted: the
\* call throws, the wrapper text is not handed to dotenv.parse and no
\* environment variable is set
C8_MalformedRecord ==
  (Done /\ NameGiven /\ ExtractionFails) =>
    /\ outcome.kind = "threw"
    /\ outcome.error \in {"plistparser.parse", "dotenv.parse"}
    /\ parserInput # Str(decoded.text)
    /\ vars = <<>>
    /\ env = env0

C8_Witness ==
  /\ Done /\ NameGiven /\ ExtractionFails
  /\ ~plistResult.threw
  /\ decoded.text = <<65, 60, 33>>
  /\ parserInput.t = "undefined"
  /\ outcome.error = "dotenv.parse"

IsHexDigit(c) == c \in {"0", "1", "2", "3", "4", "5", "6", "7", "8", "9",
                        "a", "b", "c", "d", "e", "f",
                        "A", "B", "C", "D", "E", "F"}
DigitValue(c) ==
  IF c \in {"0", "1", "2", "3", "4", "5", "6", "7", "8", "9"}
  THEN CHOOSE n \in 0..9 : ToString(n) = c
  ELSE CASE c \in {"a", "A"} -> 10 [] c \in {"b", "B"} -> 11
         [] c \in {"c", "C"} -> 12 [] c \in {"d", "D"} -> 13
         [] c \in {"e", "E"} -> 14 [] c \in {"f", "F"} -> 15

WellFormedHex(hs) == Len(hs) % 2 = 0 /\ \A i \in DOMAIN hs : IsHexDigit(hs[i])

\* the bytes the consecutive digit pairs of hs encode
PairBytes(hs) ==
  [i \in 1..(Len(hs) \div 2) |-> 16 * DigitValue(hs[2 * i - 1]) + DigitValue(hs[2 * i])]

C10_DefaultForReadOnly ==
  (Done /\ NameGiven) =>
    \A i \in DOMAIN cmds :
      cmds[i].timeout =
        IF options0.timeout.t # "undefined" THEN options0.timeout
        ELSE IF i \in FindCmds THEN Num(5000)
        ELSE Undefined

\* C10 amended: without a timeout from the caller the read and the write
\* are both bounded by 5000 ms; with a timeout t from the caller both are
\* bounded by t
C10_DefaultForBoth ==
  (Done /\ NameGiven) =>
    \A i \in DOMAIN cmds :
      cmds[i].timeout =
        IF options0.timeout.t # "undefined" THEN options0.timeout
        ELSE Num(5000)

C10_Witness ==
  /\ Done /\ NameGiven /\ ReadNotFound
  /\ options0.timeout.t = "undefined"
  /\ \E i \in AddCmds : cmds[i].timeout = Num(5000)
  /\ \E i \in FindCmds : cmds[i].timeout = Num(5000)

====
